---- MODULE Spec2Model ----
(***************************************************************************)
(* Model of healthcare_appointments.py: the static lookup tables, the four *)
(* tool functions, the HealthcareResponseModel output schema, and runs of   *)
(* agent2 (no retries argument) and of agent5 (retries=3) with the         *)
(* ModelRetry self-correction loop.                                        *)
(*                                                                         *)
(* Strings built by f-strings are sequences of pieces: each literal part   *)
(* and each substituted value is one piece, in the order of the f-string.  *)
(* "The string contains v" is "v is a piece of the sequence".              *)
(***************************************************************************)
EXTENDS Integers, Sequences, FiniteSets, TLC

VARIABLES
    appointment_db,                \* module-level dict, line 207
    doctor_availability,           \* module-level dict, line 225
    comprehensive_appointment_db,  \* module-level dict, line 311
    deps,                          \* the Patient Record injected into the run (ctx.deps)
    twin_deps,                     \* a second run's Patient Record, same calls issued
    call,                          \* the last operation invoked and its arguments
    result,                        \* its outcome in the run with deps
    twin_result,                   \* its outcome in the run with twin_deps
    output,                        \* the last candidate reply and its validation verdict
    agent,                         \* the agent whose run_sync is in progress, or NoAgent
    run_state,                     \* the run: idle/dispatched/corrected/returned/failed
    current_retry,                 \* per tool: ModelRetry signals since its last success
    output_retries,                \* output-validation retries used in the run
    n_calls,                       \* per tool: invocations in the run
    n_messages,                    \* length of the run's conversation (message parts)
    last_part,                     \* the part appended last to the conversation
    all_failed,                    \* every tool call of the run signalled ModelRetry
    failed_tool                    \* the tool whose retries ran out, or NoTool

tables == <<appointment_db, doctor_availability, comprehensive_appointment_db>>
toolvars == <<deps, twin_deps, call, result, twin_result>>
runvars == <<agent, run_state, current_retry, output_retries, n_calls, n_messages,
             last_part, all_failed, failed_tool>>
vars == <<tables, toolvars, output, runvars>>

----------------------------------------------------------------------------
(* Python values *)

\* The None object where a str is expected, and what an f-string prints for it.
None == "<None>"
Str(v) == IF v = None THEN "None" ELSE v

\* An Optional[List[...]]: None, or a list.
NoneList == [none |-> TRUE, list |-> <<>>]
SomeList(l) == [none |-> FALSE, list |-> l]
\* Truthiness of an Optional list: None and [] are falsy.
Truthy(a) == ~a.none /\ Len(a.list) > 0

\* {} and dict.get(key, default)
EmptyDict == [k \in {} |-> k]
DictGet(d, k, default) == IF k \in DOMAIN d THEN d[k] ELSE default

\* sep.join(items)
RECURSIVE Join(_, _)
Join(items, sep) ==
    IF Len(items) = 0 THEN <<>>
    ELSE IF Len(items) = 1 THEN <<items[1]>>
    ELSE <<items[1], sep>> \o Join(Tail(items), sep)

\* v occurs in the formatted string s
Contains(s, v) == \E i \in 1..Len(s) : s[i] = v

\* A tool function either returns a string or raises ModelRetry(message).
Return(s) == [kind |-> "return", value |-> s]
ModelRetry(s) == [kind |-> "ModelRetry", value |-> s]

----------------------------------------------------------------------------
(* The fixtures and the lookup tables *)

Appointment(id, d, t, doc, dep, st) ==
    [appointment_id |-> id, date |-> d, time |-> t, doctor_name |-> doc,
     department |-> dep, status |-> st]

PatientDetails(pid, nm, appts) ==
    [patient_id |-> pid, name |-> nm, appointments |-> appts]

patient ==
    PatientDetails("P001", "Jane Doe",
        SomeList(<<Appointment("A001", "2024-12-15", "10:00 AM", "Dr. Smith",
                               "Cardiology", "scheduled")>>))

patient_validation == PatientDetails("P001", "Jane Doe", NoneList)

appointment_db_literal ==
    ("A001" :> [date |-> "2024-12-15", time |-> "10:00 AM", doctor |-> "Dr. Smith",
                department |-> "Cardiology", status |-> "scheduled"])
    @@
    ("A002" :> [date |-> "2024-12-20", time |-> "2:30 PM", doctor |-> "Dr. Johnson",
                department |-> "Dermatology", status |-> "confirmed"])

doctor_availability_literal ==
    ("Dr. Smith" :> <<"Monday", "Wednesday", "Friday">>)
    @@ ("Dr. Johnson" :> <<"Tuesday", "Thursday">>)
    @@ ("Dr. Williams" :> <<"Monday", "Tuesday", "Wednesday", "Thursday", "Friday">>)

comprehensive_appointment_db_literal ==
    ("APT-12345" :> [date |-> "2024-12-15", time |-> "10:00 AM", doctor |-> "Dr. Smith",
                     department |-> "Cardiology", status |-> "scheduled",
                     patient_id |-> "P001"])
    @@
    ("APT-67890" :> [date |-> "2024-12-20", time |-> "2:30 PM", doctor |-> "Dr. Johnson",
                     department |-> "Dermatology", status |-> "confirmed",
                     patient_id |-> "P002"])

\* Patient Records a caller may inject: the two fixtures of the source, and
\* records with an empty list, with two appointments, and with an appointment
\* whose id is not a key of appointment_db.
PatientRecords ==
    { patient,
      patient_validation,
      PatientDetails("P002", "John Roe", SomeList(<<>>)),
      PatientDetails("P002", "John Roe",
          SomeList(<<Appointment("A002", "2024-12-20", "2:30 PM", "Dr. Johnson",
                                 "Dermatology", "confirmed"),
                     Appointment("A001", "2024-12-15", "10:00 AM", "Dr. Smith",
                                 "Cardiology", "scheduled")>>)),
      PatientDetails("P003", "Ann Poe",
          SomeList(<<Appointment("A999", "2025-01-05", "9:00 AM", "Dr. Williams",
                                 "Neurology", "scheduled")>>)) }

\* Arguments the calling model may pass.
DoctorNames == {"Dr. Smith", "Dr. Johnson", "Dr. Williams", "Dr. Who", ""}
AppointmentIds == {"APT-12345", "APT-67890", "12345", "APT-00000", "A001"}
PatientIds == {"P001", "P002", "P003"}

----------------------------------------------------------------------------
(* The tool functions *)

\* A variant that describes the patient's last appointment.
get_appointment_details_last(ctx_deps) ==
    IF Truthy(ctx_deps.appointments)
    THEN LET appointment == ctx_deps.appointments.list[Len(ctx_deps.appointments.list)]
             details == DictGet(appointment_db, appointment.appointment_id, EmptyDict)
         IN Return(<<"Appointment ", appointment.appointment_id, ": ",
                     Str(DictGet(details, "date", None)), " at ",
                     Str(DictGet(details, "time", None)), " with ",
                     Str(DictGet(details, "doctor", None)), " in ",
                     Str(DictGet(details, "department", None))>>)
    ELSE Return(<<"No appointments found">>)

get_appointment_details(ctx_deps) ==
    IF Truthy(ctx_deps.appointments)
    THEN LET appointment == ctx_deps.appointments.list[1]
             details == DictGet(appointment_db, appointment.appointment_id, EmptyDict)
         IN Return(<<"Appointment ", appointment.appointment_id, ": ",
                     Str(DictGet(details, "date", None)), " at ",
                     Str(DictGet(details, "time", None)), " with ",
                     Str(DictGet(details, "doctor", None)), " in ",
                     Str(DictGet(details, "department", None))>>)
    ELSE Return(<<"No appointments found">>)

\* A variant that indexes the table (doctor_availability[doctor_name]).
check_doctor_availability_index(doctor_name) ==
    IF doctor_name \notin DOMAIN doctor_availability
    THEN [kind |-> "KeyError", value |-> <<doctor_name>>]
    ELSE Return(<<doctor_name, " is available on: ">>
                \o Join(doctor_availability[doctor_name], ", "))

check_doctor_availability(doctor_name) ==
    LET available_days == DictGet(doctor_availability, doctor_name, <<>>)
    IN IF Len(available_days) > 0
       THEN Return(<<doctor_name, " is available on: ">> \o Join(available_days, ", "))
       ELSE Return(<<"No availability information found for ", doctor_name>>)

\* A variant that formats whatever the lookup gave, without the None check.
get_appointment_status_unchecked(appointment_id) ==
    LET appointment_info == DictGet(comprehensive_appointment_db, appointment_id, EmptyDict)
    IN Return(<<"Appointment ", appointment_id, ": ",
                Str(DictGet(appointment_info, "date", None)), " at ",
                Str(DictGet(appointment_info, "time", None)), " with ",
                Str(DictGet(appointment_info, "doctor", None)), " (",
                Str(DictGet(appointment_info, "department", None)), ") - Status: ",
                Str(DictGet(appointment_info, "status", None))>>)

get_appointment_status(appointment_id) ==
    IF appointment_id \notin DOMAIN comprehensive_appointment_db
    THEN ModelRetry(<<"No appointment found for ID ", appointment_id, ". ",
                      "Please ensure the appointment ID is in the correct format (APT-XXXXX) ",
                      "and verify with the patient. Self-correct if needed and try again.">>)
    ELSE LET appointment_info == comprehensive_appointment_db[appointment_id]
         IN Return(<<"Appointment ", appointment_id, ": ", appointment_info.date,
                     " at ", appointment_info.time, " with ", appointment_info.doctor,
                     " (", appointment_info.department, ") - Status: ",
                     appointment_info.status>>)

\* A variant without the ownership check.
validate_patient_appointment_any_owner(appointment_id, patient_id) ==
    IF appointment_id \notin DOMAIN comprehensive_appointment_db
    THEN ModelRetry(<<"Appointment ", appointment_id,
                      " not found. Please verify the appointment ID format.">>)
    ELSE Return(<<"Appointment ", appointment_id, " verified for patient ", patient_id>>)

validate_patient_appointment(appointment_id, patient_id) ==
    IF appointment_id \notin DOMAIN comprehensive_appointment_db
    THEN ModelRetry(<<"Appointment ", appointment_id,
                      " not found. Please verify the appointment ID format.">>)
    ELSE LET appointment_info == comprehensive_appointment_db[appointment_id]
         IN IF DictGet(appointment_info, "patient_id", None) # patient_id
            THEN ModelRetry(<<"Appointment ", appointment_id,
                              " does not belong to patient ", patient_id, ". ",
                              "This is a HIPAA violation. Please verify patient identity before providing appointment information.">>)
            ELSE Return(<<"Appointment ", appointment_id, " verified for patient ",
                          patient_id>>)

\* A variant in which the ownership check reads the run context.
RunTool_ctx_owner(ctx_deps, tool, args) ==
    CASE tool = "get_appointment_details" -> get_appointment_details(ctx_deps)
      [] tool = "check_doctor_availability" -> check_doctor_availability(args[1])
      [] tool = "get_appointment_status" -> get_appointment_status(args[1])
      [] tool = "validate_patient_appointment" ->
             validate_patient_appointment(args[1], ctx_deps.patient_id)

\* How the agent calls a registered tool: Tool(..., takes_ctx=True) passes the
\* run context, Tool(..., takes_ctx=False) and @agent5.tool_plain() pass only
\* the arguments the model supplied.
RunTool(ctx_deps, tool, args) ==
    CASE tool = "get_appointment_details" -> get_appointment_details(ctx_deps)
      [] tool = "check_doctor_availability" -> check_doctor_availability(args[1])
      [] tool = "get_appointment_status" -> get_appointment_status(args[1])
      [] tool = "validate_patient_appointment" ->
             validate_patient_appointment(args[1], args[2])

----------------------------------------------------------------------------
(* The output schema *)

\* A value of the model's raw reply: a JSON string, boolean or null, as its
\* type and its text.
JStr(x) == [type |-> "str", v |-> x]
JBool(b) == [type |-> "bool", v |-> IF b THEN "true" ELSE "false"]
JNull == [type |-> "null", v |-> "null"]
Absent == [type |-> "absent", v |-> "absent"]

\* The fields of HealthcareResponseModel and their annotations. No field has
\* a default (Field(description=...) gives none), so all five are required;
\* department_referral may be null.
HealthcareResponseFields ==
    [response |-> "str",
     urgency_level |-> "str",
     appointment_needed |-> "bool",
     follow_up_required |-> "bool",
     department_referral |-> "Optional[str]"]

\* Strings pydantic's default (lax) mode takes for a bool.
BoolStrings == {"true", "false", "yes", "no", "on", "off", "1", "0", "t", "f", "y", "n"}

FieldAccepts(annotation, val) ==
    CASE annotation = "str" -> val.type = "str"
      [] annotation = "bool" ->
             val.type = "bool" \/ (val.type = "str" /\ val.v \in BoolStrings)
      [] annotation = "Optional[str]" -> val.type \in {"str", "null"}

\* Validation of a candidate reply (a mapping from field names to values)
\* against HealthcareResponseModel: every field present and of its type.
HealthcareResponseModel(data) ==
    [valid |-> \A f \in DOMAIN HealthcareResponseFields :
                   /\ f \in DOMAIN data
                   /\ FieldAccepts(HealthcareResponseFields[f], data[f]),
     data |-> data]

\* Candidate replies of the calling model.
Candidate(u, a, r) ==
    LET full == [response |-> JStr("ok"), urgency_level |-> u, appointment_needed |-> a,
                 follow_up_required |-> JBool(FALSE), department_referral |-> r]
        present == {f \in DOMAIN full : full[f] # Absent}
    IN [f \in present |-> full[f]]

UrgencyValues ==
    {JStr("routine"), JStr("urgent"), JStr("emergency"), JStr("banana"), JStr(""),
     JBool(TRUE), JNull, Absent}
AppointmentNeededValues == {JBool(TRUE), JStr("yes"), JStr("maybe"), Absent}
ReferralValues == {JNull, JStr("Cardiology"), Absent}

\* One field varied at a time around a well-formed reply.
Candidates ==
    {Candidate(u, JBool(TRUE), JNull) : u \in UrgencyValues}
    \cup {Candidate(JStr("routine"), a, JNull) : a \in AppointmentNeededValues}
    \cup {Candidate(JStr("urgent"), JBool(TRUE), r) : r \in ReferralValues}

NoOutput == [valid |-> FALSE, data |-> EmptyDict]

----------------------------------------------------------------------------
(* Tool invocations, in runs with any injected Patient Record *)

NoCall == [tool |-> "none", args |-> <<>>]
NoResult == [kind |-> "none", value |-> <<>>]

\* What a tool call leaves in the module-level tables and in the injected
\* record: no tool function assigns to a table or to ctx.deps, and dict.get
\* does not insert its default.
TablesAfterCall_setdefault(ctx_deps, tool, args) ==
    IF /\ tool = "get_appointment_details"
       /\ Truthy(ctx_deps.appointments)
       /\ ctx_deps.appointments.list[1].appointment_id \notin DOMAIN appointment_db
    THEN <<appointment_db @@ (ctx_deps.appointments.list[1].appointment_id :> EmptyDict),
           doctor_availability, comprehensive_appointment_db>>
    ELSE tables

TablesAfterCall(ctx_deps, tool, args) == tables

DepsAfterCall(ctx_deps, tool, args) == ctx_deps

Invoke(tool, args) ==
    /\ call' = [tool |-> tool, args |-> args]
    /\ result' = RunTool(deps, tool, args)
    /\ twin_result' = RunTool(twin_deps, tool, args)
    /\ appointment_db' = TablesAfterCall(deps, tool, args)[1]
    /\ doctor_availability' = TablesAfterCall(deps, tool, args)[2]
    /\ comprehensive_appointment_db' = TablesAfterCall(deps, tool, args)[3]
    /\ deps' = DepsAfterCall(deps, tool, args)
    /\ twin_deps' = DepsAfterCall(twin_deps, tool, args)

\* A caller starts a run with a Patient Record (run_sync(..., deps=...)).
Inject ==
    \E d \in PatientRecords, d2 \in PatientRecords :
        /\ deps' = d
        /\ twin_deps' = d2
        /\ call' = NoCall
        /\ result' = NoResult
        /\ twin_result' = NoResult
        /\ UNCHANGED <<tables, output, runvars>>

CallGetAppointmentDetails ==
    /\ Invoke("get_appointment_details", <<>>)
    /\ UNCHANGED <<output, runvars>>

CallCheckDoctorAvailability ==
    \E doctor_name \in DoctorNames :
        /\ Invoke("check_doctor_availability", <<doctor_name>>)
        /\ UNCHANGED <<output, runvars>>

CallGetAppointmentStatus ==
    \E appointment_id \in AppointmentIds :
        /\ Invoke("get_appointment_status", <<appointment_id>>)
        /\ UNCHANGED <<output, runvars>>

CallValidatePatientAppointment ==
    \E appointment_id \in AppointmentIds, patient_id \in PatientIds :
        /\ Invoke("validate_patient_appointment", <<appointment_id, patient_id>>)
        /\ UNCHANGED <<output, runvars>>

\* The model's raw reply is validated against the output schema.
ValidateReply ==
    \E data \in Candidates :
        /\ output' = HealthcareResponseModel(data)
        /\ UNCHANGED <<tables, toolvars, runvars>>

NoTool == "none"
NoAgent == "none"
Agent5Tools == {"get_appointment_status", "validate_patient_appointment"}

Init ==
    /\ appointment_db = appointment_db_literal
    /\ doctor_availability = doctor_availability_literal
    /\ comprehensive_appointment_db = comprehensive_appointment_db_literal
    /\ deps = patient
    /\ twin_deps = patient_validation
    /\ call = NoCall
    /\ result = NoResult
    /\ twin_result = NoResult
    /\ output = NoOutput
    /\ agent = NoAgent
    /\ run_state = "idle"
    /\ current_retry = [t \in Agent5Tools |-> 0]
    /\ output_retries = 0
    /\ n_calls = [t \in Agent5Tools |-> 0]
    /\ n_messages = 0
    /\ last_part = [part_kind |-> "none", content |-> <<>>]
    /\ all_failed = TRUE
    /\ failed_tool = NoTool

Next ==
    \/ Inject
    \/ CallGetAppointmentDetails
    \/ CallCheckDoctorAvailability
    \/ CallGetAppointmentStatus
    \/ CallValidatePatientAppointment
    \/ ValidateReply

Spec == Init /\ [][Next]_vars

----------------------------------------------------------------------------
(* Runs of agent2 and agent5: output validation and the self-correction loop *)

\* agent5 = Agent(..., retries=3): how many times a tool's ModelRetry, or an
\* invalid reply, is answered by a retry prompt before the run fails.
retries == 3

\* agent2 = Agent(...) passes no retries: Agent's default applies, which is 1.
default_retries == 1

\* The conversation is kept as its length and its last part; a run is
\* followed up to MaxMessages parts.
MaxMessages == 27

\* A variant in which an agent built without retries has no retry at all.
MaxRetries_none_by_default(a) == IF a = "agent5" THEN retries ELSE 0

MaxRetries(a) == IF a = "agent5" THEN retries ELSE default_retries

\* The tools registered on each agent.
ToolsOf(a) == IF a = "agent5" THEN Agent5Tools ELSE {}

\* A variant that never turns ModelRetry into a retry prompt.
RetryBudgetExceeded_uncaught(retry_count, max_retries) == retry_count > 0

\* A variant that counts attempts: with retries=3 the third signal is the last.
RetryBudgetExceeded_attempts(retry_count, max_retries) == retry_count >= max_retries

\* retry_count signals in a row are more than the budget allows.
RetryBudgetExceeded(retry_count, max_retries) == retry_count > max_retries

Part(kind, content) == [part_kind |-> kind, content |-> content]

\* Arguments the calling model passes within a run.
RunAppointmentIds == {"12345", "APT-12345"}
RunPatientIds == {"P001", "P002"}
RunCandidates ==
    {Candidate(JStr("routine"), JBool(TRUE), JNull),
     Candidate(JStr("banana"), JBool(TRUE), JNull),
     Candidate(Absent, JBool(TRUE), JNull)}

\* agent2.run_sync(prompt) and agent5.run_sync(user_prompt=..., deps=patient_validation)
RunSync ==
    /\ run_state \in {"idle", "returned", "failed"}
    /\ \E a \in {"agent2", "agent5"} : agent' = a
    /\ run_state' = "dispatched"
    /\ deps' = patient_validation
    /\ current_retry' = [t \in Agent5Tools |-> 0]
    /\ output_retries' = 0
    /\ n_calls' = [t \in Agent5Tools |-> 0]
    /\ n_messages' = 1
    /\ last_part' = Part("user-prompt", <<>>)
    /\ all_failed' = TRUE
    /\ failed_tool' = NoTool
    /\ call' = NoCall
    /\ result' = NoResult
    /\ twin_result' = NoResult
    /\ output' = NoOutput
    /\ UNCHANGED <<tables, twin_deps>>

\* The model answers the request with a call of one of the agent's tools; the
\* host runs the function. A returned string goes back to the model as a
\* tool return; a ModelRetry becomes a retry prompt carrying its message,
\* unless the tool's retries are used up, which fails the run.
ModelCallsTool(tool, args) ==
    /\ run_state = "dispatched"
    /\ tool \in ToolsOf(agent)
    /\ n_messages + 2 <= MaxMessages
    /\ Invoke(tool, args)
    /\ n_calls' = [n_calls EXCEPT ![tool] = @ + 1]
    /\ LET outcome == RunTool(deps, tool, args)
           retry_count == current_retry[tool] + 1
       IN IF outcome.kind = "return"
          THEN /\ current_retry' = [current_retry EXCEPT ![tool] = 0]
               /\ n_messages' = n_messages + 2
               /\ last_part' = Part("tool-return", outcome.value)
               /\ all_failed' = FALSE
               /\ UNCHANGED <<run_state, failed_tool>>
          ELSE /\ current_retry' = [current_retry EXCEPT ![tool] = retry_count]
               /\ all_failed' = all_failed
               /\ IF RetryBudgetExceeded(retry_count, MaxRetries(agent))
                  THEN /\ run_state' = "failed"
                       /\ failed_tool' = tool
                       /\ n_messages' = n_messages + 1
                       /\ last_part' = Part("tool-call", <<tool>>)
                  ELSE /\ run_state' = "corrected"
                       /\ n_messages' = n_messages + 2
                       /\ last_part' = Part("retry-prompt", outcome.value)
                       /\ UNCHANGED failed_tool
    /\ UNCHANGED <<agent, output, output_retries>>

ModelCallsGetAppointmentStatus ==
    \E appointment_id \in RunAppointmentIds :
        ModelCallsTool("get_appointment_status", <<appointment_id>>)

ModelCallsValidatePatientAppointment ==
    \E appointment_id \in RunAppointmentIds, patient_id \in RunPatientIds :
        ModelCallsTool("validate_patient_appointment", <<appointment_id, patient_id>>)

\* The conversation, with the retry prompt at its end, is sent to the model again.
Resubmit ==
    /\ run_state = "corrected"
    /\ run_state' = "dispatched"
    /\ UNCHANGED <<tables, toolvars, output, agent, current_retry, output_retries,
                   n_calls, n_messages, last_part, all_failed, failed_tool>>

\* The model answers with its final reply, which is validated against
\* output_type=HealthcareResponseModel; an invalid one is answered by a
\* retry prompt while the budget lasts.
ModelReplies ==
    \E data \in RunCandidates :
        /\ run_state = "dispatched"
        /\ n_messages + 2 <= MaxMessages
        /\ output' = HealthcareResponseModel(data)
        /\ IF HealthcareResponseModel(data).valid
           THEN /\ run_state' = "returned"
                /\ n_messages' = n_messages + 1
                /\ last_part' = Part("output", <<>>)
                /\ UNCHANGED output_retries
           ELSE /\ output_retries' = output_retries + 1
                /\ IF RetryBudgetExceeded(output_retries + 1, MaxRetries(agent))
                   THEN /\ run_state' = "failed"
                        /\ n_messages' = n_messages + 1
                        /\ last_part' = Part("output", <<>>)
                   ELSE /\ run_state' = "corrected"
                        /\ n_messages' = n_messages + 2
                        /\ last_part' = Part("retry-prompt", <<"validation errors">>)
        /\ UNCHANGED <<tables, toolvars, agent, current_retry, n_calls, all_failed,
                       failed_tool>>

RunNext ==
    \/ RunSync
    \/ ModelCallsGetAppointmentStatus
    \/ ModelCallsValidatePatientAppointment
    \/ Resubmit
    \/ ModelReplies

RunSpec == Init /\ [][RunNext]_vars

----------------------------------------------------------------------------
(* Properties of the tool functions *)

HintFormat == "Please ensure the appointment ID is in the correct format (APT-XXXXX) "
HintNotFound == " not found. Please verify the appointment ID format."
HintHIPAA == "This is a HIPAA violation. Please verify patient identity before providing appointment information."

\* C2: get_appointment_status returns, for an id that is a key of
\* comprehensive_appointment_db, a string containing the entry's date, time,
\* doctor, department and status, and signals nothing; for any other id it
\* signals ModelRetry with the corrective hint and returns no value.
C2_StatusLookup ==
    call.tool = "get_appointment_status" =>
        LET appointment_id == call.args[1]
            db == comprehensive_appointment_db_literal
        IN IF appointment_id \in DOMAIN db
           THEN /\ result.kind = "return"
                /\ Contains(result.value, appointment_id)
                /\ Contains(result.value, db[appointment_id].date)
                /\ Contains(result.value, db[appointment_id].time)
                /\ Contains(result.value, db[appointment_id].doctor)
                /\ Contains(result.value, db[appointment_id].department)
                /\ Contains(result.value, db[appointment_id].status)
           ELSE /\ result.kind = "ModelRetry"
                /\ Contains(result.value, appointment_id)
                /\ Contains(result.value, HintFormat)

C2_Witness ==
    /\ call = [tool |-> "get_appointment_status", args |-> <<"APT-00000">>]
    /\ result.kind = "ModelRetry"

\* C3: validate_patient_appointment signals the 'not found' ModelRetry for an
\* id that is not in the table, whatever the patient_id (the existence check
\* comes first); for an id in the table whose owner differs from patient_id it
\* signals the confidentiality-violation ModelRetry; it returns the 'verified'
\* string exactly when the id exists and its owner equals patient_id.
C3_Validate ==
    call.tool = "validate_patient_appointment" =>
        LET appointment_id == call.args[1]
            patient_id == call.args[2]
            db == comprehensive_appointment_db_literal
            verified == /\ result.kind = "return"
                        /\ Contains(result.value, " verified for patient ")
        IN /\ appointment_id \notin DOMAIN db =>
                /\ result.kind = "ModelRetry"
                /\ Contains(result.value, HintNotFound)
                /\ ~Contains(result.value, HintHIPAA)
           /\ (appointment_id \in DOMAIN db /\ db[appointment_id].patient_id # patient_id) =>
                /\ result.kind = "ModelRetry"
                /\ Contains(result.value, HintHIPAA)
           /\ verified <=>
                (appointment_id \in DOMAIN db /\ db[appointment_id].patient_id = patient_id)

C3_Witness ==
    /\ call = [tool |-> "validate_patient_appointment", args |-> <<"APT-67890", "P001">>]
    /\ result.kind = "ModelRetry"
    /\ Contains(result.value, HintHIPAA)

\* The days listed by an availability string: what follows the two leading
\* pieces, without the separators.
ListedDays(s) == SelectSeq(SubSeq(s, 3, Len(s)), LAMBDA x : x # ", ")

\* C6: check_doctor_availability lists, for a name registered in
\* doctor_availability, exactly that name's configured days in configured
\* order (Monday, Wednesday, Friday for "Dr. Smith"); for any other name it
\* returns the 'No availability information found' string; it never raises.
C6_Availability ==
    call.tool = "check_doctor_availability" =>
        LET doctor_name == call.args[1]
        IN /\ result.kind = "return"
           /\ IF doctor_name \in DOMAIN doctor_availability_literal
              THEN /\ result.value[1] = doctor_name
                   /\ ListedDays(result.value) = doctor_availability_literal[doctor_name]
                   /\ doctor_name = "Dr. Smith" =>
                          ListedDays(result.value) = <<"Monday", "Wednesday", "Friday">>
              ELSE result.value = <<"No availability information found for ", doctor_name>>

C6_Witness ==
    /\ call = [tool |-> "check_doctor_availability", args |-> <<"Dr. Smith">>]
    /\ result = Return(<<"Dr. Smith", " is available on: ",
                         "Monday", ", ", "Wednesday", ", ", "Friday">>)

\* C8: no tool invocation, returning or signalling ModelRetry, changes one
\* of the three lookup tables or the injected Patient Record.
C8_ReadOnly ==
    [][/\ appointment_db' = appointment_db_literal
       /\ doctor_availability' = doctor_availability_literal
       /\ comprehensive_appointment_db' = comprehensive_appointment_db_literal
       /\ call'.tool # "none" => deps' = deps]_vars

C8_Witness ==
    /\ call.tool = "get_appointment_details"
    /\ Truthy(deps.appointments)
    /\ deps.appointments.list[1].appointment_id = "A999"
    /\ tables = <<appointment_db_literal, doctor_availability_literal,
                  comprehensive_appointment_db_literal>>

\* C9: get_appointment_details never raises; with a non-empty appointments
\* list it describes the first appointment only: its id and the date, time,
\* doctor and department stored in appointment_db under that id, or None
\* for each of the four when the id is not a key; with appointments None or
\* empty it returns "No appointments found".
C9_Details ==
    call.tool = "get_appointment_details" =>
        /\ result.kind = "return"
        /\ IF Truthy(deps.appointments)
           THEN LET first == deps.appointments.list[1].appointment_id
                    db == appointment_db_literal
                IN /\ Len(result.value) = 10
                   /\ result.value[1] = "Appointment "
                   /\ result.value[2] = first
                   /\ first \in DOMAIN db =>
                        /\ result.value[4] = db[first].date
                        /\ result.value[6] = db[first].time
                        /\ result.value[8] = db[first].doctor
                        /\ result.value[10] = db[first].department
                   /\ first \notin DOMAIN db =>
                        \A i \in {4, 6, 8, 10} : result.value[i] = "None"
           ELSE result.value = <<"No appointments found">>

C9_Witness ==
    /\ call.tool = "get_appointment_details"
    /\ Len(deps.appointments.list) = 2
    /\ result.value[2] = "A002"
    /\ result.value[8] = "Dr. Johnson"

\* C10: the outcome of get_appointment_status and of
\* validate_patient_appointment does not depend on the injected Patient
\* Record: two runs that differ only in it get the same outcome for the same
\* call; caller P001 gets the details of APT-67890, which P002 owns, and the
\* ownership check uses the patient_id argument, not the caller's.
C10_DepsIndependent ==
    call.tool \in Agent5Tools =>
        /\ result = twin_result
        /\ call.args = <<"APT-67890">> =>
              (result.kind = "return" /\ Contains(result.value, "Dr. Johnson"))
        /\ call.args = <<"APT-67890", "P002">> => result.kind = "return"
        /\ call.args = <<"APT-12345", "P002">> => result.kind = "ModelRetry"

C10_Witness ==
    /\ deps.patient_id = "P001"
    /\ twin_deps.patient_id = "P002"
    /\ call = [tool |-> "validate_patient_appointment", args |-> <<"APT-67890", "P002">>]
    /\ result.kind = "return"

UrgencyLabels == {"routine", "urgent", "emergency"}

\* C5: every reply accepted as a HealthcareResponseModel has all required
\* fields present and an urgency_level among routine, urgent, emergency; a
\* candidate with any other urgency is rejected.
C5_UrgencyLabels ==
    output.valid =>
        /\ DOMAIN HealthcareResponseFields \subseteq DOMAIN output.data
        /\ output.data.urgency_level.type = "str"
        /\ output.data.urgency_level.v \in UrgencyLabels

----------------------------------------------------------------------------
(* Properties of the runs *)

OtherTool(t) == CHOOSE u \in Agent5Tools : u # t

====
